---- MODULE Spec2Model ----
(***************************************************************************)
(* Versioned-document lifecycle and cascade deletion of resumator:         *)
(* resumes, cover letters, their versions, and the applications that       *)
(* reference them (backend/app/services, backend/app/models).              *)
(*                                                                         *)
(* The relational store is modelled as one set of rows per table.  Every   *)
(* action is one public service method, run to completion on one session   *)
(* (sessionmaker(autocommit=False, autoflush=False), expire_on_commit at   *)
(* its default True), against a store that enforces the declared foreign   *)
(* keys (PostgreSQL in production, SQLite with PRAGMA foreign_keys=ON in   *)
(* the tests).                                                             *)
(***************************************************************************)
EXTENDS Integers, FiniteSets, Sequences, TLC

\* ---------------------------------------------------------------- bounds
MaxResumes == 2
MaxResumeVersions == 3
MaxCoverLetters == 1
MaxCoverLetterVersions == 2
MaxApplications == 2
\* rows inserted over all tables in one behaviour
MaxRows == 6

\* ------------------------------------------------------------- constants
\* A nullable column holding no reference (None).
NULL == 0

Users == {1, 2}

\* A company name is the sequence of its parts separated by " - ":
\* <<"Acme">> is "Acme", <<"Big", "Acme">> is "Big - Acme".
Companies == {<<"Acme">>, <<"Big", "Acme">>}
NoCompany == <<>>

\* Where the markdown of a customization comes from: handed in by the
\* caller, generated by the AI client, or the AI client raising.
ContentSources == {"provided", "generated", "ai_error"}

ResumeIds == 1..MaxResumes
ResumeVersionIds == 1..MaxResumeVersions
CoverLetterIds == 1..MaxCoverLetters
CoverLetterVersionIds == 1..MaxCoverLetterVersions
ApplicationIds == 1..MaxApplications

\* The requests served at the same time, each by its own session
\* (get_db hands every request a new SessionLocal()).
Requests == {1, 2}

\* A request slot before its request arrives.
IdleRequest ==
    [op |-> "none", pc |-> "idle", version_id |-> NULL, company |-> NoCompany,
     version_count |-> 0, ret |-> NULL, result |-> "none"]

\* The lists of ids a bulk deletion is called with.
MaxBulk == 3
ApplicationIdLists == UNION {[1..n -> ApplicationIds] : n \in 0..MaxBulk}

VARIABLES
    resumes,                \* rows of table resumes: [id, user_id]
    resume_versions,        \* rows of resume_versions: [id, resume_id, n, company, is_original]
    cover_letters,          \* rows of cover_letters: [id, user_id]
    cover_letter_versions,  \* rows of cover_letter_versions: [id, cover_letter_id, n, company, is_original]
    applications,           \* rows of applications
    next_id,                \* the next primary key of each table
    requests                \* the requests in flight, each on its own session

vars == <<resumes, resume_versions, cover_letters, cover_letter_versions, applications, next_id, requests>>

\* The committed store as one value, so that service methods that call each
\* other can be composed.
CurrentDB ==
    [resumes |-> resumes,
     resume_versions |-> resume_versions,
     cover_letters |-> cover_letters,
     cover_letter_versions |-> cover_letter_versions,
     applications |-> applications,
     next_id |-> next_id]

\* ------------------------------------------------------------ the tables
\* class Resume
Resume(id, user_id) == [id |-> id, user_id |-> user_id]

\* class ResumeVersion; column version is "v{n}" when company is NoCompany
\* and "v{n} - {company}" otherwise.
ResumeVersion(id, resume_id, n, company, is_original) ==
    [id |-> id, resume_id |-> resume_id, n |-> n, company |-> company,
     is_original |-> is_original]

\* class CoverLetter
CoverLetter(id, user_id) == [id |-> id, user_id |-> user_id]

\* class CoverLetterVersion
CoverLetterVersion(id, cover_letter_id, n, company, is_original) ==
    [id |-> id, cover_letter_id |-> cover_letter_id, n |-> n, company |-> company,
     is_original |-> is_original]

\* class Application
Application(id, user_id, resume_id, resume_version_id, customized_resume_version_id, cover_letter_id) ==
    [id |-> id, user_id |-> user_id, resume_id |-> resume_id,
     resume_version_id |-> resume_version_id,
     customized_resume_version_id |-> customized_resume_version_id,
     cover_letter_id |-> cover_letter_id,
     cover_letter_version_id |-> NULL,
     customized_cover_letter_version_id |-> NULL]

\* ------------------------------------------------------------- queries
Row(table, id) == CHOOSE r \in table : r.id = id
Exists(table, id) == \E r \in table : r.id = id

\* query(...).first() without order_by: the row inserted first.
First(rows) == CHOOSE r \in rows : \A o \in rows : r.id <= o.id
\* order_by(created_at.desc()).first(): the row inserted last.
Latest(rows) == CHOOSE r \in rows : \A o \in rows : r.id >= o.id

\* The ids of a set of rows, ascending, as query(...).all() lists them.
RECURSIVE IdsAscending(_)
IdsAscending(rows) ==
    IF rows = {} THEN <<>>
    ELSE LET r == First(rows) IN <<r.id>> \o IdsAscending(rows \ {r})

IsSuffix(s, t) ==
    /\ Len(s) <= Len(t)
    /\ \A i \in 1..Len(s) : s[i] = t[Len(t) - Len(s) + i]

\* ResumeVersion.version.like(f"% - {company}"): the label ends with " - "
\* followed by the company.
LabelLike(v, company) == v.company # NoCompany /\ IsSuffix(company, v.company)

VersionsOfResume(db, resume_id) == {v \in db.resume_versions : v.resume_id = resume_id}
VersionsOfCoverLetter(db, cover_letter_id) ==
    {v \in db.cover_letter_versions : v.cover_letter_id = cover_letter_id}

\* ----------------------------------------------- the outcome of a call
Outcome(op, user_id, target, version, result) ==
    [op |-> op, user_id |-> user_id, target |-> target, version |-> version,
     result |-> result,
     ret |-> NULL,                \* the id of the row returned
     dry_run |-> FALSE,
     created |-> FALSE,           \* a version row was inserted
     ai_calls |-> 0,              \* calls of ai_client made
     warnings |-> 0,              \* len(result['warnings'])
     will_delete |-> {},          \* versions named as to be deleted
     customized_version_deleted |-> FALSE,
     applications_deleted |-> 0,
     application_count |-> 0,     \* the count named in a dependency error
     message |-> "",              \* the literal text of a validation error
     company |-> NoCompany]

\* What a service method hands back: the store it leaves committed and the
\* outcome seen by the caller.
Done(db, out) == [db |-> db, out |-> out]

\* ------------------------------------------- the session and the store
\* What db.delete(row); db.commit() does, given the relationships of the
\* mapped classes and the foreign keys of the tables.  A flush that fails
\* (IntegrityError) leaves the store as it was: the caller rolls back.
Flushed(ok, db) == [ok |-> ok, db |-> db]

\* A store that lets a version go while resume_version_id still names it.
FlushDeleteResumeVersionUnrestricted(db, version_id) ==
    Flushed(TRUE,
            [db EXCEPT
                !.resume_versions = {v \in @ : v.id # version_id},
                !.applications =
                    {a \in @ : a.customized_resume_version_id # version_id}])

\* db.delete(version) on a ResumeVersion.  ResumeVersion.applications
\* (foreign_keys=Application.resume_version_id, passive_deletes=False, no
\* delete cascade) makes the session set resume_version_id of the referring
\* applications to NULL first, which the column (nullable=False) refuses.
\* Applications referring to the row through customized_resume_version_id
\* (ondelete="CASCADE") are deleted by the store with it.
FlushDeleteResumeVersion(db, version_id) ==
    IF \E a \in db.applications : a.resume_version_id = version_id
    THEN Flushed(FALSE, db)
    ELSE Flushed(TRUE,
                 [db EXCEPT
                     !.resume_versions = {v \in @ : v.id # version_id},
                     !.applications =
                         {a \in @ : a.customized_resume_version_id # version_id}])

\* db.delete(resume) on a Resume.  Resume.versions (cascade="all,
\* delete-orphan") deletes every version as above; Resume.applications
\* (passive_deletes=False) sets resume_id of the referring applications to
\* NULL, which the column (nullable=False) refuses.
FlushDeleteResume(db, resume_id) ==
    LET version_ids == {v.id : v \in VersionsOfResume(db, resume_id)} IN
    IF \E a \in db.applications :
          a.resume_id = resume_id \/ a.resume_version_id \in version_ids
    THEN Flushed(FALSE, db)
    ELSE Flushed(TRUE,
                 [db EXCEPT
                     !.resumes = {r \in @ : r.id # resume_id},
                     !.resume_versions = {v \in @ : v.resume_id # resume_id},
                     !.applications =
                         {a \in @ : a.customized_resume_version_id \notin version_ids}])

\* The applications table once the cover-letter versions version_ids are
\* deleted.  CoverLetterVersion.applications (foreign_keys=
\* Application.cover_letter_version_id, passive_deletes=False) sets
\* cover_letter_version_id of the referring applications to NULL (the column
\* is nullable); customized_cover_letter_version_id is ondelete="CASCADE".
ApplicationsWithoutCoverLetterVersions(apps, version_ids) ==
    {IF a.cover_letter_version_id \in version_ids
        THEN [a EXCEPT !.cover_letter_version_id = NULL]
        ELSE a :
     a \in {b \in apps : b.customized_cover_letter_version_id \notin version_ids}}

\* db.delete(version) on a CoverLetterVersion.
FlushDeleteCoverLetterVersion(db, version_id) ==
    Flushed(TRUE,
            [db EXCEPT
                !.cover_letter_versions = {v \in @ : v.id # version_id},
                !.applications =
                    ApplicationsWithoutCoverLetterVersions(@, {version_id})])

\* db.delete(cover_letter) with a foreign key on cover_letter_id that
\* deletes the referring applications with the cover letter.
FlushDeleteCoverLetterCascading(db, cover_letter_id) ==
    LET version_ids == {v.id : v \in VersionsOfCoverLetter(db, cover_letter_id)} IN
    Flushed(TRUE,
            [db EXCEPT
                !.cover_letters = {c \in @ : c.id # cover_letter_id},
                !.cover_letter_versions = {v \in @ : v.cover_letter_id # cover_letter_id},
                !.applications =
                    {a \in ApplicationsWithoutCoverLetterVersions(@, version_ids) :
                        a.cover_letter_id # cover_letter_id}])

\* db.delete(cover_letter) on a CoverLetter.  CoverLetter.versions
\* (cascade="all, delete-orphan") deletes the versions; cover_letter_id of
\* the referring applications is set to NULL (ondelete="SET NULL").
FlushDeleteCoverLetter(db, cover_letter_id) ==
    LET version_ids == {v.id : v \in VersionsOfCoverLetter(db, cover_letter_id)} IN
    Flushed(TRUE,
            [db EXCEPT
                !.cover_letters = {c \in @ : c.id # cover_letter_id},
                !.cover_letter_versions = {v \in @ : v.cover_letter_id # cover_letter_id},
                !.applications =
                    {IF a.cover_letter_id = cover_letter_id
                        THEN [a EXCEPT !.cover_letter_id = NULL]
                        ELSE a :
                     a \in ApplicationsWithoutCoverLetterVersions(@, version_ids)}])

\* db.add(version) of a new ResumeVersion and db.commit().
InsertResumeVersion(db, resume_id, n, company, is_original) ==
    [db EXCEPT
        !.resume_versions =
            @ \cup {ResumeVersion(db.next_id.resume_versions, resume_id, n, company,
                                  is_original)},
        !.next_id.resume_versions = @ + 1]

\* ------------------------------------------------------- ResumeService
\* ResumeService.get_resume finds the row: the id exists and is the caller's.
get_resume(db, user_id, resume_id) ==
    \E r \in db.resumes : r.id = resume_id /\ r.user_id = user_id

\* ResumeService.upload_resume
upload_resume(db, user_id) ==
    LET resume_id == db.next_id.resumes
        with_resume == [db EXCEPT !.resumes = @ \cup {Resume(resume_id, user_id)},
                                  !.next_id.resumes = @ + 1]
    IN Done(InsertResumeVersion(with_resume, resume_id, 1, NoCompany, TRUE),
            [Outcome("upload_resume", user_id, resume_id, db.next_id.resume_versions, "ok")
                EXCEPT !.ret = resume_id, !.created = TRUE])

\* ResumeService.save_customization
save_customization(db, user_id, resume_id) ==
    LET out == Outcome("save_customization", user_id, resume_id, NULL, "ok")
        version_count == Cardinality(VersionsOfResume(db, resume_id))
    IN IF ~get_resume(db, user_id, resume_id)
       THEN Done(db, [out EXCEPT !.result = "ResumeNotFoundError"])
       ELSE Done(InsertResumeVersion(db, resume_id, version_count + 1, NoCompany, FALSE),
                 [out EXCEPT !.version = db.next_id.resume_versions, !.created = TRUE])

\* ResumeService.customize_resume; ai_ok: ai_client.rewrite_resume returns.
customize_resume(db, user_id, resume_id, ai_ok) ==
    LET out == Outcome("customize_resume", user_id, resume_id, NULL, "ok")
        version_count == Cardinality(VersionsOfResume(db, resume_id))
    IN IF ~get_resume(db, user_id, resume_id)
       THEN Done(db, [out EXCEPT !.result = "ResumeNotFoundError"])
       ELSE IF version_count = 0
       THEN Done(db, [out EXCEPT !.result = "ValidationError"])
       ELSE IF ~ai_ok
       THEN Done(db, [out EXCEPT !.result = "ValidationError", !.ai_calls = 1])
       ELSE Done(InsertResumeVersion(db, resume_id, version_count + 1, NoCompany, FALSE),
                 [out EXCEPT !.version = db.next_id.resume_versions, !.created = TRUE,
                             !.ai_calls = 1])

\* A lookup that never finds a version to reuse.
CompanyVersionsNone(db, resume_id, company) == {}

\* The reuse lookup of customize_resume_for_application: the versions of
\* the resume whose label ends with " - {company}".
CompanyVersions(db, resume_id, company) ==
    {v \in VersionsOfResume(db, resume_id) : LabelLike(v, company)}

\* ResumeService.customize_resume_for_application; provided: the caller
\* passes customized_markdown; ai_ok: ai_client.rewrite_resume returns.
customize_resume_for_application(db, user_id, resume_id, original_version_id, company, provided, ai_ok) ==
    LET out == [Outcome("customize_resume_for_application", user_id, resume_id,
                        original_version_id, "ok") EXCEPT !.company = company]
        existing == CompanyVersions(db, resume_id, company)
        version_count == Cardinality(VersionsOfResume(db, resume_id))
        calls == IF provided THEN 0 ELSE 1
    IN IF ~get_resume(db, user_id, resume_id)
       THEN Done(db, [out EXCEPT !.result = "ResumeNotFoundError"])
       ELSE IF ~\E v \in VersionsOfResume(db, resume_id) : v.id = original_version_id
       THEN Done(db, [out EXCEPT !.result = "ValidationError"])
       ELSE IF existing # {}
       THEN Done(db, [out EXCEPT !.ret = First(existing).id])
       ELSE IF ~provided /\ ~ai_ok
       THEN Done(db, [out EXCEPT !.result = "ValidationError", !.ai_calls = 1])
       ELSE Done(InsertResumeVersion(db, resume_id, version_count + 1, company, FALSE),
                 [out EXCEPT !.ret = db.next_id.resume_versions, !.created = TRUE,
                             !.ai_calls = calls])

\* ResumeService.check_resume_dependencies, once get_resume has found the
\* row: the applications whose resume_id is the resume.
ResumeDependents(db, resume_id) == {a \in db.applications : a.resume_id = resume_id}

check_resume_dependencies(db, user_id, resume_id) ==
    IF ~get_resume(db, user_id, resume_id)
    THEN [result |-> "ResumeNotFoundError", can_delete |-> FALSE, application_count |-> 0]
    ELSE [result |-> "ok",
          can_delete |-> ResumeDependents(db, resume_id) = {},
          application_count |-> Cardinality(ResumeDependents(db, resume_id))]

\* Deletion rules without the rule that protects an original version.
VersionCanDeleteIgnoringOriginal(db, version) ==
    LET version_count == Cardinality(VersionsOfResume(db, version.resume_id))
        applications_customized ==
            {a \in db.applications : a.customized_resume_version_id = version.id}
    IN /\ ~(version_count <= 1)
       /\ ~(applications_customized # {})

\* The deletion rules of ResumeService.check_version_dependencies.
VersionCanDelete(db, version) ==
    LET version_count == Cardinality(VersionsOfResume(db, version.resume_id))
        applications_original ==
            {a \in db.applications : a.resume_version_id = version.id}
        applications_customized ==
            {a \in db.applications : a.customized_resume_version_id = version.id}
    IN /\ ~(version_count <= 1)
       /\ ~(version.is_original /\ applications_original # {})
       /\ ~(applications_customized # {})

\* ResumeService.check_version_dependencies
check_version_dependencies(db, user_id, resume_id, version_id) ==
    IF ~get_resume(db, user_id, resume_id)
    THEN [result |-> "ResumeNotFoundError", can_delete |-> FALSE]
    ELSE IF ~\E v \in VersionsOfResume(db, resume_id) : v.id = version_id
    THEN [result |-> "ValidationError", can_delete |-> FALSE]
    ELSE [result |-> "ok",
          can_delete |-> VersionCanDelete(db, Row(db.resume_versions, version_id))]

\* ResumeService.delete_resume_version
delete_resume_version(db, user_id, resume_id, version_id) ==
    LET out == Outcome("delete_resume_version", user_id, resume_id, version_id, "ok")
        dependencies == check_version_dependencies(db, user_id, resume_id, version_id)
        flushed == FlushDeleteResumeVersion(db, version_id)
    IN IF dependencies.result # "ok"
       THEN Done(db, [out EXCEPT !.result = dependencies.result])
       ELSE IF ~dependencies.can_delete
       THEN Done(db, [out EXCEPT !.result = "ValidationError"])
       ELSE IF ~flushed.ok
       THEN Done(db, [out EXCEPT !.result = "False"])
       ELSE Done(flushed.db, out)

\* A cleanup that deletes the version whatever refers to it.
delete_application_resume_version_unchecked(db, user_id, version_id) ==
    FlushDeleteResumeVersionUnrestricted(db, version_id)

\* A cleanup that looks neither at the owner nor at is_original.
delete_application_resume_version_unguarded(db, user_id, version_id) ==
    IF ~Exists(db.resume_versions, version_id)
    THEN Flushed(FALSE, db)
    ELSE FlushDeleteResumeVersion(db, version_id)

\* ResumeService.delete_application_resume_version: TRUE when the version
\* was deleted.
delete_application_resume_version(db, user_id, version_id) ==
    LET found == \E v \in db.resume_versions :
                     /\ v.id = version_id
                     /\ get_resume(db, user_id, v.resume_id)
                     /\ v.is_original = FALSE
    IN IF ~found
       THEN Flushed(FALSE, db)
       ELSE FlushDeleteResumeVersion(db, version_id)

\* ResumeService.delete_resume
delete_resume(db, user_id, resume_id) ==
    LET out == Outcome("delete_resume", user_id, resume_id, NULL, "ok")
        dependencies == check_resume_dependencies(db, user_id, resume_id)
        flushed == FlushDeleteResume(db, resume_id)
    IN IF dependencies.result # "ok"
       THEN Done(db, [out EXCEPT !.result = dependencies.result])
       ELSE IF ~dependencies.can_delete
       THEN Done(db, [out EXCEPT !.result = "ValidationError",
                                 !.application_count = dependencies.application_count])
       ELSE IF ~flushed.ok
       THEN Done(db, [out EXCEPT !.result = "False"])
       ELSE Done(flushed.db, out)

\* ResumeService.reassign_applications; to_version_id = NULL: the latest
\* original version of the target resume.
reassign_applications(db, user_id, from_resume_id, to_resume_id, to_version_id) ==
    LET out == Outcome("reassign_applications", user_id, from_resume_id, to_version_id, "ok")
        originals == {v \in VersionsOfResume(db, to_resume_id) : v.is_original}
        target_found ==
            IF to_version_id # NULL
            THEN \E v \in VersionsOfResume(db, to_resume_id) : v.id = to_version_id
            ELSE originals # {}
        to_version == IF to_version_id # NULL THEN to_version_id ELSE Latest(originals).id
    IN IF ~get_resume(db, user_id, from_resume_id) \/ ~get_resume(db, user_id, to_resume_id)
       THEN Done(db, [out EXCEPT !.result = "ResumeNotFoundError"])
       ELSE IF ~target_found
       THEN Done(db, [out EXCEPT !.result = "ValidationError"])
       ELSE Done([db EXCEPT !.applications =
                      {IF a.resume_id = from_resume_id
                          THEN [a EXCEPT !.resume_id = to_resume_id,
                                         !.resume_version_id = to_version]
                          ELSE a : a \in @}],
                 [out EXCEPT !.ret = to_resume_id])

\* --------------------------------------------------- CoverLetterService
\* CoverLetterService.get_cover_letter finds the row.
get_cover_letter(db, user_id, cover_letter_id) ==
    \E c \in db.cover_letters : c.id = cover_letter_id /\ c.user_id = user_id

\* db.add(version) of a new CoverLetterVersion and db.commit().
InsertCoverLetterVersion(db, cover_letter_id, n, company, is_original) ==
    [db EXCEPT
        !.cover_letter_versions =
            @ \cup {CoverLetterVersion(db.next_id.cover_letter_versions, cover_letter_id, n,
                                       company, is_original)},
        !.next_id.cover_letter_versions = @ + 1]

\* CoverLetterService.create_version; the label is "v1" for an original and
\* "v{count + 1}" otherwise.
create_version(db, user_id, cover_letter_id, is_original) ==
    LET out == Outcome("create_version", user_id, cover_letter_id, NULL, "ok")
        version_count == Cardinality(VersionsOfCoverLetter(db, cover_letter_id))
        n == IF is_original THEN 1 ELSE version_count + 1
    IN IF ~get_cover_letter(db, user_id, cover_letter_id)
       THEN Done(db, [out EXCEPT !.result = "ValidationError"])
       ELSE Done(InsertCoverLetterVersion(db, cover_letter_id, n, NoCompany, is_original),
                 [out EXCEPT !.version = db.next_id.cover_letter_versions,
                             !.ret = db.next_id.cover_letter_versions,
                             !.created = TRUE])

\* CoverLetterService.create_cover_letter; has_content: content is not
\* empty, and only then is the initial version created.
create_cover_letter(db, user_id, has_content) ==
    LET cover_letter_id == db.next_id.cover_letters
        out == [Outcome("create_cover_letter", user_id, cover_letter_id, NULL, "ok")
                   EXCEPT !.ret = cover_letter_id]
        with_cover_letter ==
            [db EXCEPT !.cover_letters = @ \cup {CoverLetter(cover_letter_id, user_id)},
                       !.next_id.cover_letters = @ + 1]
    IN IF has_content
       THEN Done(create_version(with_cover_letter, user_id, cover_letter_id, TRUE).db,
                 [out EXCEPT !.version = db.next_id.cover_letter_versions,
                             !.created = TRUE])
       ELSE Done(with_cover_letter, out)

\* CoverLetterService.customize_for_application; the version is always
\* named "v2 - {company}" and reused when a version of that exact name exists.
customize_for_application(db, user_id, cover_letter_id, company, provided, ai_ok) ==
    LET out == [Outcome("customize_for_application", user_id, cover_letter_id, NULL, "ok")
                   EXCEPT !.company = company]
        versions == VersionsOfCoverLetter(db, cover_letter_id)
        existing == {v \in versions : v.n = 2 /\ v.company = company}
        calls == IF provided THEN 0 ELSE 1
    IN IF ~get_cover_letter(db, user_id, cover_letter_id)
       THEN Done(db, [out EXCEPT !.result = "ValidationError"])
       ELSE IF ~\E v \in versions : v.is_original
       THEN Done(db, [out EXCEPT !.result = "ValidationError"])
       ELSE IF existing # {}
       THEN Done(db, [out EXCEPT !.ret = First(existing).id])
       ELSE IF ~provided /\ ~ai_ok
       THEN Done(db, [out EXCEPT !.result = "ValidationError", !.ai_calls = 1])
       ELSE Done(InsertCoverLetterVersion(db, cover_letter_id, 2, company, FALSE),
                 [out EXCEPT !.ret = db.next_id.cover_letter_versions, !.created = TRUE,
                             !.ai_calls = calls])

\* The applications CoverLetterService.check_dependencies collects: those
\* whose cover_letter_version_id is a version of the cover letter.
CoverLetterDependents(db, cover_letter_id) ==
    {a \in db.applications :
        \E v \in VersionsOfCoverLetter(db, cover_letter_id) :
            a.cover_letter_version_id = v.id}

\* CoverLetterService.check_dependencies
check_dependencies(db, user_id, cover_letter_id) ==
    IF ~get_cover_letter(db, user_id, cover_letter_id)
    THEN [result |-> "CoverLetterNotFoundError", can_delete |-> FALSE,
          application_count |-> 0]
    ELSE [result |-> "ok",
          can_delete |-> CoverLetterDependents(db, cover_letter_id) = {},
          application_count |-> Cardinality(CoverLetterDependents(db, cover_letter_id))]

\* The deletion rules of CoverLetterService.check_version_dependencies.
CoverLetterVersionCanDelete(db, version) ==
    LET version_count == Cardinality(VersionsOfCoverLetter(db, version.cover_letter_id))
        referring == {a \in db.applications : a.cover_letter_version_id = version.id}
    IN /\ ~(version_count <= 1)
       /\ ~(version.is_original /\ referring # {})
       /\ ~(referring # {})

\* CoverLetterService.check_version_dependencies
check_cover_letter_version_dependencies(db, user_id, cover_letter_id, version_id) ==
    IF ~get_cover_letter(db, user_id, cover_letter_id)
    THEN [result |-> "ValidationError", can_delete |-> FALSE]
    ELSE IF ~\E v \in VersionsOfCoverLetter(db, cover_letter_id) : v.id = version_id
    THEN [result |-> "ValidationError", can_delete |-> FALSE]
    ELSE [result |-> "ok",
          can_delete |->
              CoverLetterVersionCanDelete(db, Row(db.cover_letter_versions, version_id))]

\* CoverLetterService.delete_version
delete_version(db, user_id, cover_letter_id, version_id) ==
    LET out == Outcome("delete_version", user_id, cover_letter_id, version_id, "ok")
        dependencies ==
            check_cover_letter_version_dependencies(db, user_id, cover_letter_id, version_id)
        flushed == FlushDeleteCoverLetterVersion(db, version_id)
    IN IF dependencies.result # "ok"
       THEN Done(db, [out EXCEPT !.result = dependencies.result])
       ELSE IF ~dependencies.can_delete
       THEN Done(db, [out EXCEPT !.result = "ValidationError"])
       ELSE IF ~flushed.ok
       THEN Done(db, [out EXCEPT !.result = "False"])
       ELSE Done(flushed.db, out)

\* CoverLetterService.delete_cover_letter
delete_cover_letter(db, user_id, cover_letter_id) ==
    LET out == Outcome("delete_cover_letter", user_id, cover_letter_id, NULL, "ok")
        dependencies == check_dependencies(db, user_id, cover_letter_id)
        flushed == FlushDeleteCoverLetter(db, cover_letter_id)
    IN IF dependencies.result # "ok"
       THEN Done(db, [out EXCEPT !.result = dependencies.result])
       ELSE IF ~dependencies.can_delete
       THEN Done(db, [out EXCEPT !.result = "ValidationError",
                                 !.application_count = dependencies.application_count])
       ELSE IF ~flushed.ok
       THEN Done(db, [out EXCEPT !.result = "False"])
       ELSE Done(flushed.db, out)

\* --------------------------------------------------- ApplicationService
\* ApplicationService.get_application finds the row.
get_application(db, user_id, application_id) ==
    \E a \in db.applications : a.id = application_id /\ a.user_id = user_id

\* ApplicationService.create_application_with_customization.  The resume
\* version must be one of the caller's; resume_id is checked only by the
\* customization, and otherwise by the foreign key at the insert.  The
\* generate_cover_letter branch calls a method CoverLetterService does not
\* have and swallows the error, so it changes nothing.
create_application_with_customization(db, user_id, company, resume_id, original_version_id, customize, cover_letter_id, ai_ok) ==
    LET out == [Outcome("create_application_with_customization", user_id, resume_id,
                        original_version_id, "ok") EXCEPT !.company = company]
        version_ok == \E v \in db.resume_versions :
                          v.id = original_version_id /\ get_resume(db, user_id, v.resume_id)
        customized ==
            IF customize
            THEN customize_resume_for_application(db, user_id, resume_id,
                                                  original_version_id, company, FALSE, ai_ok)
            ELSE Done(db, out)
        application_id == db.next_id.applications
    IN IF ~version_ok
       THEN Done(db, [out EXCEPT !.result = "ValidationError",
                                 !.message = "Invalid original resume version"])
       ELSE IF cover_letter_id # NULL /\ ~get_cover_letter(db, user_id, cover_letter_id)
       THEN Done(db, [out EXCEPT !.result = "ValidationError",
                                 !.message = "Invalid cover letter"])
       ELSE IF customized.out.result # "ok"
       THEN Done(customized.db, [out EXCEPT !.result = "ValidationError",
                                            !.ai_calls = customized.out.ai_calls])
       ELSE IF ~Exists(customized.db.resumes, resume_id)
       THEN Done(customized.db, [out EXCEPT !.result = "ValidationError",
                                            !.message = "Failed to create application"])
       ELSE Done([customized.db EXCEPT
                     !.applications =
                         @ \cup {Application(application_id, user_id, resume_id,
                                             original_version_id, customized.out.ret,
                                             cover_letter_id)},
                     !.next_id.applications = @ + 1],
                 [out EXCEPT !.ret = application_id,
                             !.created = customized.out.created,
                             !.ai_calls = customized.out.ai_calls])

\* ApplicationService.create_application: resume_id is taken from the
\* version, which is looked up without the owner.
create_application(db, user_id, company, resume_version_id, cover_letter_id) ==
    LET out == [Outcome("create_application", user_id, NULL, resume_version_id, "ok")
                   EXCEPT !.company = company]
        inner == create_application_with_customization(
                     db, user_id, company,
                     Row(db.resume_versions, resume_version_id).resume_id,
                     resume_version_id, FALSE, cover_letter_id, TRUE)
    IN IF ~Exists(db.resume_versions, resume_version_id)
       THEN Done(db, [out EXCEPT !.result = "ValidationError",
                                 !.message = "Resume version not found"])
       ELSE Done(inner.db, [inner.out EXCEPT !.op = "create_application", !.target = NULL])

\* ApplicationService.update_application with ApplicationUpdate(
\* cover_letter_version_id=...); the other fields of the schema are not
\* references.  An id of no row fails the foreign key at the commit.
update_application(db, user_id, application_id, cover_letter_version_id) ==
    LET out == Outcome("update_application", user_id, application_id,
                       cover_letter_version_id, "ok")
    IN IF ~get_application(db, user_id, application_id)
       THEN Done(db, [out EXCEPT !.result = "ApplicationNotFoundError"])
       ELSE IF /\ cover_letter_version_id # NULL
               /\ ~Exists(db.cover_letter_versions, cover_letter_version_id)
       THEN Done(db, [out EXCEPT !.result = "ValidationError"])
       ELSE Done([db EXCEPT !.applications =
                      {IF a.id = application_id
                          THEN [a EXCEPT !.cover_letter_version_id = cover_letter_version_id]
                          ELSE a : a \in @}],
                 [out EXCEPT !.ret = application_id])

\* The other applications delete_application counts: those using the
\* version as their customized version.
OtherApplications(db, application_id, version_id) ==
    {a \in db.applications :
        a.id # application_id /\ a.customized_resume_version_id = version_id}

\* ApplicationService.delete_application.  When the customized version is
\* deleted, the store deletes the application row with it (ondelete=
\* "CASCADE"), both committed by delete_application_resume_version; the
\* following db.delete(application) then finds no row behind the expired
\* object (ObjectDeletedError), which the handler raises as ValidationError.
delete_application(db, user_id, application_id, dry_run) ==
    LET out == [Outcome("delete_application", user_id, application_id, NULL, "ok")
                   EXCEPT !.dry_run = dry_run]
        application == Row(db.applications, application_id)
        customized_version_id == application.customized_resume_version_id
        other_apps_count ==
            Cardinality(OtherApplications(db, application_id, customized_version_id))
        can_delete_customized == customized_version_id # NULL /\ other_apps_count = 0
        plan == [out EXCEPT
                    !.version = customized_version_id,
                    !.warnings =
                        IF customized_version_id # NULL /\ other_apps_count > 0
                        THEN 1 ELSE 0,
                    !.will_delete =
                        IF can_delete_customized THEN {customized_version_id} ELSE {}]
        step1 == IF can_delete_customized
                 THEN delete_application_resume_version(db, user_id, customized_version_id)
                 ELSE Flushed(FALSE, db)
    IN IF ~get_application(db, user_id, application_id)
       THEN Done(db, [out EXCEPT !.result = "ValidationError"])
       ELSE IF dry_run
       THEN Done(db, plan)
       ELSE IF ~Exists(step1.db.applications, application_id)
       THEN Done(step1.db, [out EXCEPT !.result = "ValidationError"])
       ELSE Done([step1.db EXCEPT !.applications = {a \in @ : a.id # application_id}],
                 [plan EXCEPT !.ret = application_id,
                              !.customized_version_deleted = step1.ok])

\* ApplicationService.get_application_deletion_preview: preview['will_delete']
\* and preview['warnings'].
get_application_deletion_preview(db, user_id, application_id) ==
    LET out == Outcome("get_application_deletion_preview", user_id, application_id,
                       NULL, "ok")
        application == Row(db.applications, application_id)
        customized_version_id == application.customized_resume_version_id
        listed == /\ customized_version_id # NULL
                  /\ Exists(db.resume_versions, customized_version_id)
        other_apps ==
            Cardinality(OtherApplications(db, application_id, customized_version_id))
    IN IF ~get_application(db, user_id, application_id)
       THEN Done(db, [out EXCEPT !.result = "ValidationError"])
       ELSE Done(db, [out EXCEPT
                         !.version = customized_version_id,
                         !.warnings = IF listed /\ other_apps > 0 THEN 1 ELSE 0,
                         !.will_delete =
                             IF listed /\ other_apps = 0
                             THEN {customized_version_id} ELSE {}])

\* The loop of bulk_delete_applications that stops at the first id whose
\* deletion raises.
RECURSIVE BulkDeleteLoopAborting(_, _, _, _, _)
BulkDeleteLoopAborting(db, user_id, application_ids, dry_run, summary) ==
    IF application_ids = <<>>
    THEN [db |-> db, summary |-> summary]
    ELSE LET app_id == Head(application_ids)
             deleted == delete_application(db, user_id, app_id, dry_run)
         IN IF deleted.out.result = "ok"
            THEN BulkDeleteLoopAborting(deleted.db, user_id, Tail(application_ids), dry_run,
                     [summary EXCEPT
                         !.deleted = @ + 1,
                         !.results = Append(@, [application_id |-> app_id,
                                                success |-> TRUE])])
            ELSE [db |-> deleted.db,
                  summary |-> [summary EXCEPT
                                  !.failed = @ + 1,
                                  !.errors = Append(@, app_id)]]

\* The loop of bulk_delete_applications over application_ids.  An entry of
\* summary['results'] is kept as the id and result['success'], an entry of
\* summary['errors'] as the id its text names.  delete_application returns
\* with success set or raises, so the branch for a returned result without
\* success is never taken.
RECURSIVE BulkDeleteLoop(_, _, _, _, _)
BulkDeleteLoop(db, user_id, application_ids, dry_run, summary) ==
    IF application_ids = <<>>
    THEN [db |-> db, summary |-> summary]
    ELSE LET app_id == Head(application_ids)
             deleted == delete_application(db, user_id, app_id, dry_run)
         IN IF deleted.out.result = "ok"
            THEN BulkDeleteLoop(deleted.db, user_id, Tail(application_ids), dry_run,
                     [summary EXCEPT
                         !.deleted = @ + 1,
                         !.customized_versions_deleted =
                             IF deleted.out.customized_version_deleted
                             THEN @ + 1 ELSE @,
                         !.results = Append(@, [application_id |-> app_id,
                                                success |-> TRUE])])
            ELSE BulkDeleteLoop(deleted.db, user_id, Tail(application_ids), dry_run,
                     [summary EXCEPT
                         !.failed = @ + 1,
                         !.errors = Append(@, app_id),
                         !.results = Append(@, [application_id |-> app_id,
                                                success |-> FALSE])])

\* ApplicationService.bulk_delete_applications
bulk_delete_applications(db, user_id, application_ids, dry_run) ==
    BulkDeleteLoop(db, user_id, application_ids, dry_run,
                   [total |-> Len(application_ids), deleted |-> 0, failed |-> 0,
                    customized_versions_deleted |-> 0, results |-> <<>>,
                    errors |-> <<>>])

\* The loop of delete_resume_with_applications over the applications of
\* the resume.  A failed deletion is logged and the loop goes on; the log
\* line reads app.id, which raises when the row behind the expired object
\* is gone, and that ends the whole call.
RECURSIVE DeleteApplications(_, _, _, _)
DeleteApplications(db, user_id, application_ids, deleted) ==
    IF application_ids = <<>>
    THEN [db |-> db, applications_deleted |-> deleted, aborted |-> FALSE]
    ELSE LET app_id == Head(application_ids)
             delete_result == delete_application(db, user_id, app_id, FALSE)
         IN IF delete_result.out.result = "ok"
            THEN DeleteApplications(delete_result.db, user_id, Tail(application_ids),
                                    deleted + 1)
            ELSE IF ~Exists(delete_result.db.applications, app_id)
            THEN [db |-> delete_result.db, applications_deleted |-> deleted,
                  aborted |-> TRUE]
            ELSE DeleteApplications(delete_result.db, user_id, Tail(application_ids),
                                    deleted)

\* ResumeService.delete_resume_with_applications
delete_resume_with_applications(db, user_id, resume_id, force) ==
    LET out == [Outcome("delete_resume_with_applications", user_id, resume_id, NULL, "ok")
                   EXCEPT !.dry_run = ~force]
        dependencies == check_resume_dependencies(db, user_id, resume_id)
        loop == DeleteApplications(db, user_id,
                                   IdsAscending(ResumeDependents(db, resume_id)), 0)
        flushed == FlushDeleteResume(loop.db, resume_id)
    IN IF dependencies.result # "ok"
       THEN Done(db, [out EXCEPT !.result = dependencies.result])
       ELSE IF ~force /\ ~dependencies.can_delete
       THEN Done(db, [out EXCEPT !.result = "ValidationError"])
       ELSE IF loop.aborted
       THEN Done(loop.db, [out EXCEPT !.result = "ValidationError"])
       ELSE IF ~flushed.ok
       THEN Done(loop.db, [out EXCEPT !.result = "ValidationError"])
       ELSE Done(flushed.db, [out EXCEPT !.ret = resume_id,
                                         !.applications_deleted = loop.applications_deleted])

\* ------------------------------------------------------------ the system
Init ==
    /\ resumes = {}
    /\ resume_versions = {}
    /\ cover_letters = {}
    /\ cover_letter_versions = {}
    /\ applications = {}
    /\ next_id = [resumes |-> 1, resume_versions |-> 1, cover_letters |-> 1,
                  cover_letter_versions |-> 1, applications |-> 1]
    /\ requests = [r \in Requests |-> IdleRequest]

\* The rows inserted so far, over all tables.
RowsInserted(db) ==
    (db.next_id.resumes - 1) + (db.next_id.resume_versions - 1)
    + (db.next_id.cover_letters - 1) + (db.next_id.cover_letter_versions - 1)
    + (db.next_id.applications - 1)

\* The primary keys handed out stay within the bounds of the model.
WithinBounds(db) ==
    /\ db.next_id.resumes <= MaxResumes + 1
    /\ db.next_id.resume_versions <= MaxResumeVersions + 1
    /\ db.next_id.cover_letters <= MaxCoverLetters + 1
    /\ db.next_id.cover_letter_versions <= MaxCoverLetterVersions + 1
    /\ db.next_id.applications <= MaxApplications + 1
    /\ RowsInserted(db) <= MaxRows

\* A service call returns: the store it left committed and its outcome.
Returns(done) ==
    /\ WithinBounds(done.db)
    /\ resumes' = done.db.resumes
    /\ resume_versions' = done.db.resume_versions
    /\ cover_letters' = done.db.cover_letters
    /\ cover_letter_versions' = done.db.cover_letter_versions
    /\ applications' = done.db.applications
    /\ next_id' = done.db.next_id
    /\ UNCHANGED requests

UploadResume ==
    \E u \in Users : Returns(upload_resume(CurrentDB, u))

SaveCustomization ==
    \E u \in Users, r \in ResumeIds : Returns(save_customization(CurrentDB, u, r))

CustomizeResume ==
    \E u \in Users, r \in ResumeIds, ai_ok \in BOOLEAN :
        Returns(customize_resume(CurrentDB, u, r, ai_ok))

CustomizeResumeForApplication ==
    \E u \in Users, r \in ResumeIds, v \in ResumeVersionIds, c \in Companies,
       content \in ContentSources :
        Returns(customize_resume_for_application(CurrentDB, u, r, v, c,
                                                 content = "provided", content # "ai_error"))

DeleteResumeVersion ==
    \E u \in Users, r \in ResumeIds, v \in ResumeVersionIds :
        Returns(delete_resume_version(CurrentDB, u, r, v))

DeleteResume ==
    \E u \in Users, r \in ResumeIds : Returns(delete_resume(CurrentDB, u, r))

DeleteResumeWithApplications ==
    \E u \in Users, r \in ResumeIds, force \in BOOLEAN :
        Returns(delete_resume_with_applications(CurrentDB, u, r, force))

ReassignApplications ==
    \E u \in Users, from \in ResumeIds, to \in ResumeIds,
       v \in ResumeVersionIds \cup {NULL} :
        Returns(reassign_applications(CurrentDB, u, from, to, v))

CreateCoverLetter ==
    \E u \in Users, has_content \in BOOLEAN :
        Returns(create_cover_letter(CurrentDB, u, has_content))

CreateVersion ==
    \E u \in Users, c \in CoverLetterIds, is_original \in BOOLEAN :
        Returns(create_version(CurrentDB, u, c, is_original))

CustomizeForApplication ==
    \E u \in Users, c \in CoverLetterIds, company \in Companies,
       content \in ContentSources :
        Returns(customize_for_application(CurrentDB, u, c, company,
                                          content = "provided", content # "ai_error"))

DeleteVersion ==
    \E u \in Users, c \in CoverLetterIds, v \in CoverLetterVersionIds :
        Returns(delete_version(CurrentDB, u, c, v))

DeleteCoverLetter ==
    \E u \in Users, c \in CoverLetterIds : Returns(delete_cover_letter(CurrentDB, u, c))

CreateApplicationWithCustomization ==
    \E u \in Users, company \in Companies, r \in ResumeIds, v \in ResumeVersionIds,
       customize \in {"no", "generated", "ai_error"}, c \in CoverLetterIds \cup {NULL} :
        Returns(create_application_with_customization(CurrentDB, u, company, r, v,
                                                      customize # "no", c,
                                                      customize # "ai_error"))

CreateApplication ==
    \E u \in Users, company \in Companies, v \in ResumeVersionIds,
       c \in CoverLetterIds \cup {NULL} :
        Returns(create_application(CurrentDB, u, company, v, c))

UpdateApplication ==
    \E u \in Users, a \in ApplicationIds, v \in CoverLetterVersionIds \cup {NULL} :
        Returns(update_application(CurrentDB, u, a, v))

DeleteApplication ==
    \E u \in Users, a \in ApplicationIds, dry_run \in BOOLEAN :
        Returns(delete_application(CurrentDB, u, a, dry_run))

GetApplicationDeletionPreview ==
    \E u \in Users, a \in ApplicationIds :
        Returns(get_application_deletion_preview(CurrentDB, u, a))

BulkDeleteApplications ==
    \E u \in Users, ids \in ApplicationIdLists, dry_run \in BOOLEAN :
        Returns(bulk_delete_applications(CurrentDB, u, ids, dry_run))

Next ==
    \/ UploadResume
    \/ SaveCustomization
    \/ CustomizeResume
    \/ CustomizeResumeForApplication
    \/ DeleteResumeVersion
    \/ DeleteResume
    \/ DeleteResumeWithApplications
    \/ ReassignApplications
    \/ CreateCoverLetter
    \/ CreateVersion
    \/ CustomizeForApplication
    \/ DeleteVersion
    \/ DeleteCoverLetter
    \/ CreateApplicationWithCustomization
    \/ CreateApplication
    \/ UpdateApplication
    \/ DeleteApplication
    \/ GetApplicationDeletionPreview
    \/ BulkDeleteApplications

Spec == Init /\ [][Next]_vars

\* ------------------------------------------------- requests in parallel
\* Two requests served at the same time.  Each runs one service method on
\* its own session against the shared store; a step is one statement sent
\* to the store (a query, or the flush and commit), and every statement
\* sees what is committed when it runs (READ COMMITTED, the default of the
\* PostgreSQL engine created in core/database.py).  The requests are those
\* of the owner of one resume that holds its original version and one
\* saved customization.
ConcurrentUser == 1
ConcurrentResume == 1

EmptyStore ==
    [resumes |-> {}, resume_versions |-> {}, cover_letters |-> {},
     cover_letter_versions |-> {}, applications |-> {},
     next_id |-> [resumes |-> 1, resume_versions |-> 1, cover_letters |-> 1,
                  cover_letter_versions |-> 1, applications |-> 1]]

\* The store after upload_resume and save_customization by ConcurrentUser.
TwoVersionStore ==
    save_customization(upload_resume(EmptyStore, ConcurrentUser).db,
                       ConcurrentUser, ConcurrentResume).db

ConcurrentInit ==
    /\ resumes = TwoVersionStore.resumes
    /\ resume_versions = TwoVersionStore.resume_versions
    /\ cover_letters = TwoVersionStore.cover_letters
    /\ cover_letter_versions = TwoVersionStore.cover_letter_versions
    /\ applications = TwoVersionStore.applications
    /\ next_id = TwoVersionStore.next_id
    /\ requests = [r \in Requests |-> IdleRequest]

\* A step of request r that commits store db and leaves the request as req.
Commits(r, db, req) ==
    /\ resumes' = db.resumes
    /\ resume_versions' = db.resume_versions
    /\ cover_letters' = db.cover_letters
    /\ cover_letter_versions' = db.cover_letter_versions
    /\ applications' = db.applications
    /\ next_id' = db.next_id
    /\ requests' = [requests EXCEPT ![r] = req]

\* A step of request r that only reads.
Reads(r, req) == Commits(r, CurrentDB, req)

\* A request arrives: customize_resume_for_application for a company (from
\* the original version, with customized_markdown or a generator that
\* answers), delete_resume_version of a version, or
\* create_application_with_customization(customize_resume=False) on a version.
Arrive(r) ==
    /\ requests[r].pc = "idle"
    /\ \/ \E company \in Companies :
              Reads(r, [requests[r] EXCEPT !.op = "customize_resume_for_application",
                                           !.pc = "lookup", !.company = company])
       \/ \E v \in ResumeVersionIds :
              Reads(r, [requests[r] EXCEPT !.op = "delete_resume_version",
                                           !.pc = "check", !.version_id = v])
       \/ \E v \in ResumeVersionIds :
              Reads(r, [requests[r] EXCEPT !.op = "create_application_with_customization",
                                           !.pc = "validate", !.version_id = v])

\* customize_resume_for_application up to the reuse lookup: get_resume, the
\* original version, the version labelled for the company.
CustomizeLookup(r) ==
    LET req == requests[r]
        original_found ==
            \E v \in VersionsOfResume(CurrentDB, ConcurrentResume) : v.is_original
        existing == CompanyVersions(CurrentDB, ConcurrentResume, req.company)
    IN /\ req.op = "customize_resume_for_application" /\ req.pc = "lookup"
       /\ IF ~original_found
          THEN Reads(r, [req EXCEPT !.pc = "done", !.result = "ValidationError"])
          ELSE IF existing # {}
          THEN Reads(r, [req EXCEPT !.pc = "done", !.result = "ok",
                                    !.ret = First(existing).id])
          ELSE Reads(r, [req EXCEPT !.pc = "count"])

\* The version_count query, after the markdown has been generated.
CustomizeCount(r) ==
    LET req == requests[r] IN
    /\ req.op = "customize_resume_for_application" /\ req.pc = "count"
    /\ Reads(r, [req EXCEPT
                    !.pc = "insert",
                    !.version_count =
                        Cardinality(VersionsOfResume(CurrentDB, ConcurrentResume))])

\* The number in the label, computed again from the store at the commit.
NextVersionNumberAtCommit(db, req) ==
    Cardinality(VersionsOfResume(db, ConcurrentResume)) + 1

\* The number in the label of the new version: base_version =
\* f"v{version_count + 1}", from the count the request read.
NextVersionNumber(db, req) == req.version_count + 1

\* db.add(new_version_record); db.commit(): no constraint of the table
\* looks at the label.  The resume row must still be there (foreign key).
CustomizeInsert(r) ==
    LET req == requests[r] IN
    /\ req.op = "customize_resume_for_application" /\ req.pc = "insert"
    /\ IF ~Exists(resumes, ConcurrentResume)
       THEN Reads(r, [req EXCEPT !.pc = "done", !.result = "ValidationError"])
       ELSE Commits(r,
                    InsertResumeVersion(CurrentDB, ConcurrentResume,
                                        NextVersionNumber(CurrentDB, req),
                                        req.company, FALSE),
                    [req EXCEPT !.pc = "done", !.result = "ok",
                                !.ret = next_id.resume_versions])

\* delete_resume_version up to the decision: check_version_dependencies.
DeleteCheck(r) ==
    LET req == requests[r]
        dependencies == check_version_dependencies(CurrentDB, ConcurrentUser,
                                                   ConcurrentResume, req.version_id)
    IN /\ req.op = "delete_resume_version" /\ req.pc = "check"
       /\ IF dependencies.result # "ok"
          THEN Reads(r, [req EXCEPT !.pc = "done", !.result = dependencies.result])
          ELSE IF ~dependencies.can_delete
          THEN Reads(r, [req EXCEPT !.pc = "done", !.result = "ValidationError"])
          ELSE Reads(r, [req EXCEPT !.pc = "commit"])

\* The version is read again, deleted and the delete committed; a version
\* gone in the meantime, or a flush the store refuses, returns False.
DeleteCommit(r) ==
    LET req == requests[r]
        flushed == FlushDeleteResumeVersion(CurrentDB, req.version_id)
    IN /\ req.op = "delete_resume_version" /\ req.pc = "commit"
       /\ IF ~Exists(resume_versions, req.version_id) \/ ~flushed.ok
          THEN Reads(r, [req EXCEPT !.pc = "done", !.result = "False"])
          ELSE Commits(r, flushed.db,
                       [req EXCEPT !.pc = "done", !.result = "ok",
                                   !.ret = req.version_id])

\* create_application_with_customization up to the insert: the version must
\* be one of the caller's.
ApplicationValidate(r) ==
    LET req == requests[r]
        version_ok == \E v \in resume_versions :
                          /\ v.id = req.version_id
                          /\ get_resume(CurrentDB, ConcurrentUser, v.resume_id)
    IN /\ req.op = "create_application_with_customization" /\ req.pc = "validate"
       /\ IF ~version_ok
          THEN Reads(r, [req EXCEPT !.pc = "done", !.result = "ValidationError"])
          ELSE Reads(r, [req EXCEPT !.pc = "insert"])

\* A store that takes the application row without looking at its references.
FlushInsertApplicationUnchecked(db, user_id, resume_id, resume_version_id) ==
    Flushed(TRUE,
            [db EXCEPT
                !.applications =
                    @ \cup {Application(db.next_id.applications, user_id, resume_id,
                                        resume_version_id, NULL, NULL)},
                !.next_id.applications = @ + 1])

\* db.add(application); db.commit(): the foreign keys resume_id and
\* resume_version_id must name rows of the store.
FlushInsertApplication(db, user_id, resume_id, resume_version_id) ==
    IF ~Exists(db.resumes, resume_id) \/ ~Exists(db.resume_versions, resume_version_id)
    THEN Flushed(FALSE, db)
    ELSE Flushed(TRUE,
                 [db EXCEPT
                     !.applications =
                         @ \cup {Application(db.next_id.applications, user_id, resume_id,
                                             resume_version_id, NULL, NULL)},
                     !.next_id.applications = @ + 1])

ApplicationInsert(r) ==
    LET req == requests[r]
        flushed == FlushInsertApplication(CurrentDB, ConcurrentUser, ConcurrentResume,
                                          req.version_id)
    IN /\ req.op = "create_application_with_customization" /\ req.pc = "insert"
       /\ IF ~flushed.ok
          THEN Reads(r, [req EXCEPT !.pc = "done", !.result = "ValidationError"])
          ELSE Commits(r, flushed.db,
                       [req EXCEPT !.pc = "done", !.result = "ok",
                                   !.ret = next_id.applications])

ConcurrentNext ==
    \E r \in Requests :
        \/ Arrive(r)
        \/ CustomizeLookup(r)
        \/ CustomizeCount(r)
        \/ CustomizeInsert(r)
        \/ DeleteCheck(r)
        \/ DeleteCommit(r)
        \/ ApplicationValidate(r)
        \/ ApplicationInsert(r)

ConcurrentSpec == ConcurrentInit /\ [][ConcurrentNext]_vars

\* ------------------------------------------------------------ properties
\* The service methods are functions of the committed store, so a property
\* of a call is stated over every store the system reaches and every
\* argument of the call.

\* C1: every existing master document, resume or cover letter, has at least
\* one version.
MinimumVersion ==
    /\ \A r \in resumes : VersionsOfResume(CurrentDB, r.id) # {}
    /\ \A c \in cover_letters : VersionsOfCoverLetter(CurrentDB, c.id) # {}

\* C2: the version named by resume_version_id of an application exists, and
\* so does the version named by its cover_letter_version_id when it is set.
ProtectedReferencesExist ==
    \A a \in applications :
        /\ Exists(resume_versions, a.resume_version_id)
        /\ a.cover_letter_version_id # NULL
               => Exists(cover_letter_versions, a.cover_letter_version_id)

\* An application holds both protected references, and deleting either
\* version is refused while versions of the same documents have been deleted.
ProtectedReferencesSurviveDeletions ==
    \E a \in applications :
        /\ a.cover_letter_version_id # NULL
        /\ \/ Cardinality(resume_versions) < next_id.resume_versions - 1
           \/ Cardinality(cover_letter_versions) < next_id.cover_letter_versions - 1
        /\ \A u \in Users, r \in ResumeIds :
               delete_resume_version(CurrentDB, u, r, a.resume_version_id).db = CurrentDB
        /\ \A u \in Users, c \in CoverLetterIds :
               delete_version(CurrentDB, u, c, a.cover_letter_version_id).db = CurrentDB

\* The applications other than application_id that refer to the version
\* through resume_version_id or customized_resume_version_id.
OtherReferences(db, application_id, version_id) ==
    {b \in db.applications :
        /\ b.id # application_id
        /\ \/ b.resume_version_id = version_id
           \/ b.customized_resume_version_id = version_id}

\* C3: delete_application(dry_run=False) of an application whose customized
\* version is V removes V when no other application refers to V, and keeps
\* V with a warning when another one does; of two applications sharing V,
\* deleting the first keeps V and deleting the second removes it.
CascadeCorrectness ==
    \A a \in applications :
        LET V == a.customized_resume_version_id
            first == delete_application(CurrentDB, a.user_id, a.id, FALSE)
        IN V # NULL =>
            /\ IF OtherReferences(CurrentDB, a.id, V) = {}
               THEN ~Exists(first.db.resume_versions, V)
               ELSE Exists(first.db.resume_versions, V) /\ first.out.warnings > 0
            /\ \A b \in applications :
                   (b.id # a.id /\ b.customized_resume_version_id = V
                    /\ OtherReferences(CurrentDB, a.id, V) = {b})
                   => LET second == delete_application(first.db, b.user_id, b.id, FALSE)
                      IN /\ Exists(first.db.resume_versions, V)
                         /\ ~Exists(second.db.resume_versions, V)

\* The versions a call removed from the store.
VersionsDeleted(before, after) ==
    {v.id : v \in before.resume_versions \ after.resume_versions}
    \cup {v.id : v \in before.cover_letter_versions \ after.cover_letter_versions}

\* C4: on one store, get_application_deletion_preview and
\* delete_application(dry_run=True) name the same versions to delete, and
\* delete_application(dry_run=False) deletes exactly those versions.
DryRunParity ==
    \A a \in applications :
        LET preview == get_application_deletion_preview(CurrentDB, a.user_id, a.id)
            dry == delete_application(CurrentDB, a.user_id, a.id, TRUE)
            real == delete_application(CurrentDB, a.user_id, a.id, FALSE)
        IN /\ preview.out.will_delete = dry.out.will_delete
           /\ VersionsDeleted(CurrentDB, real.db) = dry.out.will_delete

\* C5, as the claim states it: two successive calls of
\* customize_resume_for_application for the same resume and company return
\* the same version, add exactly one version and call the generator once.
CustomizationOnce ==
    \A u \in Users, r \in ResumeIds, v1 \in ResumeVersionIds, v2 \in ResumeVersionIds,
       c \in Companies, s1 \in ContentSources, s2 \in ContentSources :
        LET first == customize_resume_for_application(
                         CurrentDB, u, r, v1, c, s1 = "provided", s1 # "ai_error")
            second == customize_resume_for_application(
                          first.db, u, r, v2, c, s2 = "provided", s2 # "ai_error")
        IN (first.out.result = "ok" /\ second.out.result = "ok") =>
            /\ second.out.ret = first.out.ret
            /\ Cardinality(second.db.resume_versions) = Cardinality(resume_versions) + 1
            /\ first.out.ai_calls + second.out.ai_calls = 1

\* C5, amended: the second call returns the version of the first, adds no
\* version and makes no generator call; the first adds one version exactly
\* when the resume had none for the company, and calls the generator only
\* then and only when the caller passed no markdown.
CustomizationReuse ==
    \A u \in Users, r \in ResumeIds, v1 \in ResumeVersionIds, v2 \in ResumeVersionIds,
       c \in Companies, s1 \in ContentSources, s2 \in ContentSources :
        LET first == customize_resume_for_application(
                         CurrentDB, u, r, v1, c, s1 = "provided", s1 # "ai_error")
            second == customize_resume_for_application(
                          first.db, u, r, v2, c, s2 = "provided", s2 # "ai_error")
            fresh == CompanyVersions(CurrentDB, r, c) = {}
        IN (first.out.result = "ok" /\ second.out.result = "ok") =>
            /\ second.out.ret = first.out.ret
            /\ second.db = first.db
            /\ second.out.ai_calls = 0
            /\ Cardinality(first.db.resume_versions)
                   = Cardinality(resume_versions) + (IF fresh THEN 1 ELSE 0)
            /\ first.out.ai_calls = (IF fresh /\ s1 # "provided" THEN 1 ELSE 0)

\* A customized version made for a company is in the store, next to other
\* versions of its resume, and a further call for the company returns it.
CustomizationReused ==
    \E u \in Users, r \in ResumeIds, v \in ResumeVersionIds, c \in Companies :
        LET again == customize_resume_for_application(CurrentDB, u, r, v, c, FALSE, TRUE)
        IN /\ Cardinality(VersionsOfResume(CurrentDB, r)) >= 3
           /\ CompanyVersions(CurrentDB, r, c) # {}
           /\ again.out.result = "ok"
           /\ again.out.ret # v
           /\ again.out.ret \in {w.id : w \in CompanyVersions(CurrentDB, r, c)}
           /\ again.db = CurrentDB

\* The customized versions that only applications of the set apps refer to.
SolelyOwnedVersions(db, apps) ==
    {V \in {a.customized_resume_version_id : a \in apps} \ {NULL} :
        \A b \in db.applications \ apps :
            b.resume_version_id # V /\ b.customized_resume_version_id # V}

\* C6: delete_resume_with_applications(force=True) on a resume with N
\* dependent applications leaves none of them, none of the customized
\* versions only they refer to, neither the resume nor a version of it, and
\* reports applications_deleted = N.
ForcedDeletionComplete ==
    \A r \in resumes :
        LET dependents == ResumeDependents(CurrentDB, r.id)
            forced == delete_resume_with_applications(CurrentDB, r.user_id, r.id, TRUE)
        IN dependents # {} =>
            /\ \A a \in dependents : ~Exists(forced.db.applications, a.id)
            /\ \A V \in SolelyOwnedVersions(CurrentDB, dependents) :
                   ~Exists(forced.db.resume_versions, V)
            /\ ~Exists(forced.db.resumes, r.id)
            /\ VersionsOfResume(forced.db, r.id) = {}
            /\ forced.out.applications_deleted = Cardinality(dependents)

\* C10: when delete_resume_with_applications(force=True) fails to delete
\* one of the dependent applications, the store is left as it was.
ForcedDeletionAborts ==
    \A r \in resumes :
        LET dependents == ResumeDependents(CurrentDB, r.id)
            loop == DeleteApplications(CurrentDB, r.user_id, IdsAscending(dependents), 0)
            forced == delete_resume_with_applications(CurrentDB, r.user_id, r.id, TRUE)
        IN (loop.aborted \/ loop.applications_deleted < Cardinality(dependents))
               => forced.db = CurrentDB

\* C9: delete_application(dry_run=False) is all or nothing: a call that
\* raises leaves the store as it was, and the eligible customized version is
\* gone exactly when the application is.
AllOrNothing ==
    \A a \in applications :
        LET V == a.customized_resume_version_id
            eligible == V # NULL /\ OtherApplications(CurrentDB, a.id, V) = {}
            deleted == delete_application(CurrentDB, a.user_id, a.id, FALSE)
        IN /\ deleted.out.result # "ok" => deleted.db = CurrentDB
           /\ eligible => (Exists(deleted.db.resume_versions, V)
                               <=> Exists(deleted.db.applications, a.id))

\* C7: deleting an original version that an application names through its
\* protected reference fails with the dependency error (ValidationError) for
\* the owner, and changes nothing whoever calls; once the application is
\* deleted, the same call succeeds only when the master has another version.
OriginalProtection ==
    /\ \A v \in resume_versions, a \in applications :
           (v.is_original /\ a.resume_version_id = v.id) =>
               LET owner == Row(resumes, v.resume_id).user_id
                   detached == delete_application(CurrentDB, a.user_id, a.id, FALSE)
                   retry == delete_resume_version(detached.db, owner, v.resume_id, v.id)
               IN /\ delete_resume_version(CurrentDB, owner, v.resume_id, v.id).out.result
                         = "ValidationError"
                  /\ \A u \in Users, r \in ResumeIds :
                         delete_resume_version(CurrentDB, u, r, v.id).db = CurrentDB
                  /\ (~Exists(detached.db.applications, a.id) /\ retry.out.result = "ok")
                         => Cardinality(VersionsOfResume(detached.db, v.resume_id)) > 1
    /\ \A v \in cover_letter_versions, a \in applications :
           (v.is_original /\ a.cover_letter_version_id = v.id) =>
               LET owner == Row(cover_letters, v.cover_letter_id).user_id
                   detached == delete_application(CurrentDB, a.user_id, a.id, FALSE)
                   retry == delete_version(detached.db, owner, v.cover_letter_id, v.id)
               IN /\ delete_version(CurrentDB, owner, v.cover_letter_id, v.id).out.result
                         = "ValidationError"
                  /\ \A u \in Users, c \in CoverLetterIds :
                         delete_version(CurrentDB, u, c, v.id).db = CurrentDB
                  /\ (~Exists(detached.db.applications, a.id) /\ retry.out.result = "ok")
                         => Cardinality(VersionsOfCoverLetter(detached.db, v.cover_letter_id)) > 1

\* An original version of a resume with a second version is named by one
\* application: deleting it is refused, and succeeds once the application is
\* deleted.
OriginalProtectedThenReleased ==
    \E v \in resume_versions, a \in applications :
        LET owner == Row(resumes, v.resume_id).user_id
            detached == delete_application(CurrentDB, a.user_id, a.id, FALSE)
            retry == delete_resume_version(detached.db, owner, v.resume_id, v.id)
        IN /\ v.is_original /\ a.resume_version_id = v.id
           /\ Cardinality(VersionsOfResume(CurrentDB, v.resume_id)) > 1
           /\ delete_resume_version(CurrentDB, owner, v.resume_id, v.id).out.result
                  = "ValidationError"
           /\ ~Exists(detached.db.applications, a.id)
           /\ retry.out.result = "ok"
           /\ ~Exists(retry.db.resume_versions, v.id)

\* C8: delete_application(dry_run=False) leaves the versions named by the
\* application's resume_version_id and cover_letter_version_id and every
\* resume as they were; it removes nothing but the application row and the
\* application's customized version.
ProtectedUntouched ==
    \A a \in applications, u \in Users :
        LET deleted == delete_application(CurrentDB, u, a.id, FALSE) IN
        /\ \E v \in deleted.db.resume_versions :
               v.id = a.resume_version_id /\ v \in resume_versions
        /\ a.cover_letter_version_id # NULL =>
               \E v \in deleted.db.cover_letter_versions :
                   v.id = a.cover_letter_version_id /\ v \in cover_letter_versions
        /\ deleted.db.resumes = resumes
        /\ deleted.db.cover_letters = cover_letters
        /\ deleted.db.cover_letter_versions = cover_letter_versions
        /\ deleted.db.resume_versions \subseteq resume_versions
        /\ \A v \in resume_versions \ deleted.db.resume_versions :
               v.id = a.customized_resume_version_id
        /\ deleted.db.applications \subseteq applications
        /\ applications \ deleted.db.applications \subseteq {a}

\* An application with a cover-letter version and a customized resume
\* version of its own is deleted: the customized version goes with it.
CustomizedVersionCascaded ==
    \E a \in applications :
        LET deleted == delete_application(CurrentDB, a.user_id, a.id, FALSE) IN
        /\ a.cover_letter_version_id # NULL
        /\ a.customized_resume_version_id # NULL
        /\ a.customized_resume_version_id # a.resume_version_id
        /\ ~Exists(deleted.db.applications, a.id)
        /\ VersionsDeleted(CurrentDB, deleted.db) = {a.customized_resume_version_id}

\* C11: delete_resume and delete_cover_letter on a master that applications
\* depend on (as the dependency check of the service counts them) raise the
\* dependency error naming their number and change nothing; on a master
\* without dependent applications they delete the master and its versions.
MasterDeletionGuard ==
    /\ \A r \in resumes :
           LET dependents == ResumeDependents(CurrentDB, r.id)
               deleted == delete_resume(CurrentDB, r.user_id, r.id)
           IN IF dependents # {}
              THEN /\ deleted.out.result = "ValidationError"
                   /\ deleted.out.application_count = Cardinality(dependents)
                   /\ deleted.db = CurrentDB
              ELSE /\ deleted.out.result = "ok"
                   /\ ~Exists(deleted.db.resumes, r.id)
                   /\ VersionsOfResume(deleted.db, r.id) = {}
    /\ \A c \in cover_letters :
           LET dependents == CoverLetterDependents(CurrentDB, c.id)
               deleted == delete_cover_letter(CurrentDB, c.user_id, c.id)
           IN IF dependents # {}
              THEN /\ deleted.out.result = "ValidationError"
                   /\ deleted.out.application_count = Cardinality(dependents)
                   /\ deleted.db = CurrentDB
              ELSE /\ deleted.out.result = "ok"
                   /\ ~Exists(deleted.db.cover_letters, c.id)
                   /\ VersionsOfCoverLetter(deleted.db, c.id) = {}

\* The positions of application_ids whose id fails for user_id: no such
\* row, a row of another user, or (outside a dry run) an id listed earlier.
FailingPositions(db, user_id, application_ids, dry_run) ==
    {k \in 1..Len(application_ids) :
        \/ ~get_application(db, user_id, application_ids[k])
        \/ ~dry_run /\ \E j \in 1..(k - 1) : application_ids[j] = application_ids[k]}

\* C12: bulk_delete_applications handles every listed id on its own: the
\* summary has one result per listed id, in order, and total = deleted +
\* failed; every failing id (missing, of another user, or listed earlier)
\* is a failed result recorded in errors; and outside a dry run every
\* listed application of the caller is deleted whatever else the list holds.
BulkIndependence ==
    \A u \in Users, ids \in ApplicationIdLists, dry_run \in BOOLEAN :
        LET bulk == bulk_delete_applications(CurrentDB, u, ids, dry_run)
            summary == bulk.summary
            failing == FailingPositions(CurrentDB, u, ids, dry_run)
        IN /\ summary.total = Len(ids)
           /\ summary.total = summary.deleted + summary.failed
           /\ Len(summary.results) = Len(ids)
           /\ \A k \in 1..Len(ids) : summary.results[k].application_id = ids[k]
           /\ \A k \in failing :
                  /\ ~summary.results[k].success
                  /\ \E e \in 1..Len(summary.errors) : summary.errors[e] = ids[k]
           /\ summary.failed >= Cardinality(failing)
           /\ Len(summary.errors) = summary.failed
           /\ summary.failed = Cardinality({k \in 1..Len(ids) : ~summary.results[k].success})
           /\ dry_run => bulk.db = CurrentDB
           /\ ~dry_run =>
                  \A k \in 1..Len(ids) :
                      get_application(CurrentDB, u, ids[k])
                          => ~Exists(bulk.db.applications, ids[k])
           /\ \A a \in applications :
                  a.user_id # u => a \in bulk.db.applications

\* A list with a failing id ahead of an application of the caller, which
\* the bulk deletion deletes.
BulkDeletesPastFailure ==
    \E u \in Users, ids \in ApplicationIdLists :
        LET bulk == bulk_delete_applications(CurrentDB, u, ids, FALSE)
        IN /\ Len(ids) = MaxBulk
           /\ ~get_application(CurrentDB, u, ids[1])
           /\ get_application(CurrentDB, u, ids[2])
           /\ ids[3] = ids[2]
           /\ bulk.summary.deleted = 1
           /\ bulk.summary.failed = 2
           /\ ~Exists(bulk.db.applications, ids[2])

\* The owner of a resume version: the owner of its resume.
VersionOwner(db, v) == Row(db.resumes, v.resume_id).user_id

\* Two calls end alike for the caller: the same kind of error with the same
\* text, nothing returned, and the store left as it was.
SameRefusal(foreign, missing) ==
    /\ foreign.out.result # "ok"
    /\ foreign.out.result = missing.out.result
    /\ foreign.out.message = missing.out.message
    /\ foreign.out.ret = NULL
    /\ foreign.db = CurrentDB

\* C13: a call by user A with the id of another user's row ends as the
\* same call with an id of no row does, error kind and text included, and
\* leaves the store as it was: for the applications, resumes and cover
\* letters taken by id, and for the resume version create_application takes.
OwnershipIndistinguishable ==
    \A A \in Users :
        /\ \A a \in applications, missing \in ApplicationIds :
               (a.user_id # A /\ ~Exists(applications, missing)) =>
                   /\ \A dry_run \in BOOLEAN :
                          SameRefusal(delete_application(CurrentDB, A, a.id, dry_run),
                                      delete_application(CurrentDB, A, missing, dry_run))
                   /\ \A v \in CoverLetterVersionIds \cup {NULL} :
                          SameRefusal(update_application(CurrentDB, A, a.id, v),
                                      update_application(CurrentDB, A, missing, v))
                   /\ SameRefusal(get_application_deletion_preview(CurrentDB, A, a.id),
                                  get_application_deletion_preview(CurrentDB, A, missing))
        /\ \A r \in resumes, missing \in ResumeIds :
               (r.user_id # A /\ ~Exists(resumes, missing)) =>
                   /\ SameRefusal(delete_resume(CurrentDB, A, r.id),
                                  delete_resume(CurrentDB, A, missing))
                   /\ check_resume_dependencies(CurrentDB, A, r.id)
                          = check_resume_dependencies(CurrentDB, A, missing)
                   /\ \A force \in BOOLEAN :
                          SameRefusal(
                              delete_resume_with_applications(CurrentDB, A, r.id, force),
                              delete_resume_with_applications(CurrentDB, A, missing, force))
        /\ \A c \in cover_letters :
               c.user_id # A =>
                   /\ SameRefusal(delete_cover_letter(CurrentDB, A, c.id),
                                  delete_cover_letter(CurrentDB, A, MaxCoverLetters + 1))
                   /\ check_dependencies(CurrentDB, A, c.id)
                          = check_dependencies(CurrentDB, A, MaxCoverLetters + 1)
        /\ \A v \in resume_versions, missing \in ResumeVersionIds, company \in Companies :
               (VersionOwner(CurrentDB, v) # A /\ ~Exists(resume_versions, missing)) =>
                   SameRefusal(create_application(CurrentDB, A, company, v.id, NULL),
                               create_application(CurrentDB, A, company, missing, NULL))

\* C14: delete_application on an id that names no application of the
\* caller fails with ApplicationNotFoundError, whatever dry_run is, and
\* leaves the store as it was.
DeleteApplicationNotFound ==
    \A u \in Users, application_id \in ApplicationIds, dry_run \in BOOLEAN :
        ~get_application(CurrentDB, u, application_id) =>
            LET deleted == delete_application(CurrentDB, u, application_id, dry_run)
            IN /\ deleted.out.result = "ApplicationNotFoundError"
               /\ deleted.db = CurrentDB

\* C15: when ai_client.rewrite_resume fails inside
\* customize_resume_for_application, the caller gets AIServiceError, no
\* version row is added and the client is called once only.
GeneratorFailureSurfaces ==
    \A r \in resumes, v \in resume_versions, company \in Companies :
        (v.resume_id = r.id /\ CompanyVersions(CurrentDB, r.id, company) = {}) =>
            LET customized == customize_resume_for_application(
                                  CurrentDB, r.user_id, r.id, v.id, company, FALSE, FALSE)
            IN /\ customized.out.result = "AIServiceError"
               /\ customized.db = CurrentDB
               /\ customized.out.ai_calls = 1

ReferencedVersionNotDeletable ==
    /\ \A r \in resumes, v \in resume_versions :
           (/\ v.resume_id = r.id
            /\ \E a \in applications :
                   \/ a.resume_version_id = v.id
                   \/ a.customized_resume_version_id = v.id)
               => ~check_version_dependencies(CurrentDB, r.user_id, r.id, v.id).can_delete
    /\ \A c \in cover_letters, v \in cover_letter_versions :
           (/\ v.cover_letter_id = c.id
            /\ \E a \in applications :
                   \/ a.cover_letter_version_id = v.id
                   \/ a.customized_cover_letter_version_id = v.id)
               => ~check_cover_letter_version_dependencies(
                       CurrentDB, c.user_id, c.id, v.id).can_delete

\* The applications whose protected reference names a version of the master.
ResumeVersionReferrers(db, resume_id) ==
    {a \in db.applications :
        \E v \in VersionsOfResume(db, resume_id) : a.resume_version_id = v.id}

CoverLetterReferrers(db, cover_letter_id) ==
    {a \in db.applications :
        \/ \E v \in VersionsOfCoverLetter(db, cover_letter_id) :
               a.cover_letter_version_id = v.id
        \/ a.cover_letter_id = cover_letter_id}

\* C19: in every reachable store the master-level dependency check
\* collects exactly the applications whose protected version reference
\* names a version of the master, and for a cover letter also those whose
\* cover_letter_id names it; can_delete holds exactly when there are none.
MasterDependencySet ==
    /\ \A r \in resumes :
           LET check == check_resume_dependencies(CurrentDB, r.user_id, r.id)
               referrers == ResumeVersionReferrers(CurrentDB, r.id)
           IN /\ ResumeDependents(CurrentDB, r.id) = referrers
              /\ check.application_count = Cardinality(referrers)
              /\ check.can_delete <=> referrers = {}
    /\ \A c \in cover_letters :
           LET check == check_dependencies(CurrentDB, c.user_id, c.id)
               referrers == CoverLetterReferrers(CurrentDB, c.id)
           IN /\ CoverLetterDependents(CurrentDB, c.id) = referrers
              /\ check.application_count = Cardinality(referrers)
              /\ check.can_delete <=> referrers = {}

\* C20: a successful customize_for_application of a cover letter follows
\* the rule of the resume customization: it returns an existing version of
\* the cover letter whose label ends with " - {company}" and adds none, or
\* else adds the version "v{n+1} - {company}", n being the number of
\* versions the cover letter had, with is_original false.
CoverLetterCustomizationRule ==
    \A c \in cover_letters, company \in Companies, provided \in BOOLEAN :
        LET versions == VersionsOfCoverLetter(CurrentDB, c.id)
            labelled == {v \in versions : LabelLike(v, company)}
            customized == customize_for_application(CurrentDB, c.user_id, c.id,
                                                    company, provided, TRUE)
            added == customized.db.cover_letter_versions \ cover_letter_versions
        IN customized.out.result = "ok" =>
               IF labelled # {}
               THEN /\ added = {}
                    /\ \E v \in labelled : v.id = customized.out.ret
               ELSE added = {CoverLetterVersion(customized.out.ret, c.id,
                                                Cardinality(versions) + 1, company, FALSE)}

\* C21: appending a version to a master with n versions labels the new
\* version "v{n+1}", whatever is_original is, and the master has one
\* version more afterwards.
AppendNumbersNext ==
    /\ \A r \in resumes :
           LET n == Cardinality(VersionsOfResume(CurrentDB, r.id))
               appended == save_customization(CurrentDB, r.user_id, r.id)
               added == appended.db.resume_versions \ resume_versions
           IN /\ Cardinality(VersionsOfResume(appended.db, r.id)) = n + 1
              /\ \A v \in added : v.resume_id = r.id /\ v.n = n + 1 /\ v.company = NoCompany
    /\ \A c \in cover_letters, is_original \in BOOLEAN :
           LET n == Cardinality(VersionsOfCoverLetter(CurrentDB, c.id))
               appended == create_version(CurrentDB, c.user_id, c.id, is_original)
               added == appended.db.cover_letter_versions \ cover_letter_versions
           IN /\ Cardinality(VersionsOfCoverLetter(appended.db, c.id)) = n + 1
              /\ \A v \in added :
                     v.cover_letter_id = c.id /\ v.n = n + 1 /\ v.company = NoCompany

\* C22: no master ever holds two versions with is_original true: only the
\* creation of the first version of a master sets the flag.
SingleOriginal ==
    /\ \A r \in resumes :
           Cardinality({v \in VersionsOfResume(CurrentDB, r.id) : v.is_original}) <= 1
    /\ \A c \in cover_letters :
           Cardinality({v \in VersionsOfCoverLetter(CurrentDB, c.id) : v.is_original}) <= 1

\* C23: two requests of customize_resume_for_application for the same
\* resume and company that both miss the reuse lookup and read the same
\* version count each insert a version, and the two versions carry the
\* same label; nothing between the lookup and the insert stops the second.
CollidingCustomizations ==
    \A p \in Requests, q \in Requests :
        (/\ p # q
         /\ requests[p].op = "customize_resume_for_application"
         /\ requests[q].op = "customize_resume_for_application"
         /\ requests[p].company = requests[q].company
         /\ requests[p].pc \in {"insert", "done"}
         /\ requests[q].pc \in {"insert", "done"}
         /\ requests[p].version_count = requests[q].version_count
         /\ requests[p].version_count > 0)
            => /\ requests[p].pc = "insert" => ENABLED CustomizeInsert(p)
               /\ (/\ requests[p].pc = "done" /\ requests[q].pc = "done"
                   /\ Exists(resume_versions, requests[p].ret)
                   /\ Exists(resume_versions, requests[q].ret))
                      => LET v == Row(resume_versions, requests[p].ret)
                             w == Row(resume_versions, requests[q].ret)
                         IN /\ v.id # w.id
                            /\ v.resume_id = w.resume_id
                            /\ v.n = w.n
                            /\ v.company = w.company

\* Two customizations for one company done, each having created its own
\* version, the two versions labelled alike.
TwoVersionsOneLabel ==
    \E p \in Requests, q \in Requests :
        /\ p # q
        /\ requests[p].op = "customize_resume_for_application"
        /\ requests[q].op = "customize_resume_for_application"
        /\ requests[p].pc = "done" /\ requests[q].pc = "done"
        /\ requests[p].ret # requests[q].ret
        /\ \E v \in resume_versions, w \in resume_versions :
               /\ v.id = requests[p].ret /\ w.id = requests[q].ret
               /\ v.resume_id = w.resume_id
               /\ v.n = w.n /\ v.company = w.company

ConcurrentDeletionsKeepAVersion ==
    \A p \in Requests, q \in Requests :
        (/\ p # q
         /\ requests[p].op = "delete_resume_version"
         /\ requests[q].op = "delete_resume_version"
         /\ requests[p].version_id # requests[q].version_id
         /\ applications = {})
            => /\ ~(requests[p].result = "ok" /\ requests[q].result = "ok")
               /\ VersionsOfResume(CurrentDB, ConcurrentResume) # {}

\* C25: under sequential execution no two versions of one resume carry
\* the same label, whatever versions were created and deleted before.
UniqueLabels ==
    \A v \in resume_versions, w \in resume_versions :
        (v.resume_id = w.resume_id /\ v.n = w.n /\ v.company = w.company) => v.id = w.id

\* C26: every application's customized_resume_version_id, when set, names
\* an existing version of the resume the application's resume_id names.
CustomizedVersionOfOwnResume ==
    \A a \in applications :
        a.customized_resume_version_id # NULL =>
            \E v \in resume_versions :
                v.id = a.customized_resume_version_id /\ v.resume_id = a.resume_id

\* The owner of a cover letter version: the owner of its cover letter.
CoverLetterVersionOwner(db, v) == Row(db.cover_letters, v.cover_letter_id).user_id

\* C27: every resume, resume version, cover letter and cover letter
\* version an application names belongs to the user of the application.
ReferencesOfOwnUser ==
    \A a \in applications :
        /\ \A r \in resumes : r.id = a.resume_id => r.user_id = a.user_id
        /\ \A v \in resume_versions :
               v.id \in {a.resume_version_id, a.customized_resume_version_id}
                   => VersionOwner(CurrentDB, v) = a.user_id
        /\ \A c \in cover_letters : c.id = a.cover_letter_id => c.user_id = a.user_id
        /\ \A v \in cover_letter_versions :
               v.id \in {a.cover_letter_version_id, a.customized_cover_letter_version_id}
                   => CoverLetterVersionOwner(CurrentDB, v) = a.user_id

\* C28: on one store and one list of ids, bulk_delete_applications with
\* dry_run predicts what the run without dry_run does: the same deleted
\* count and the same number of customized versions deleted.
BulkDryRunPredicts ==
    \A u \in Users, ids \in ApplicationIdLists :
        LET predicted == bulk_delete_applications(CurrentDB, u, ids, TRUE).summary
            actual == bulk_delete_applications(CurrentDB, u, ids, FALSE).summary
        IN /\ predicted.deleted = actual.deleted
           /\ predicted.customized_versions_deleted = actual.customized_versions_deleted

\* The versions the cascade of an application of user_id must not touch:
\* originals, and versions of resumes of other users.
GuardedVersions(db, user_id) ==
    {v \in db.resume_versions : v.is_original \/ VersionOwner(db, v) # user_id}

\* C30: the cascade of delete_application deletes no original version and
\* no version of another user: delete_application_resume_version refuses
\* such a version whoever asks, and when the cleanup of the customized
\* version is refused the version is kept and the application is deleted
\* all the same.
CascadeSparesGuardedVersions ==
    /\ \A u \in Users :
           \A v \in GuardedVersions(CurrentDB, u) :
               LET cleanup == delete_application_resume_version(CurrentDB, u, v.id)
               IN ~cleanup.ok /\ cleanup.db = CurrentDB
    /\ \A a \in applications :
           LET V == a.customized_resume_version_id
               cleanup == delete_application_resume_version(CurrentDB, a.user_id, V)
               deleted == delete_application(CurrentDB, a.user_id, a.id, FALSE)
           IN /\ GuardedVersions(CurrentDB, a.user_id) \subseteq deleted.db.resume_versions
              /\ (V # NULL /\ OtherApplications(CurrentDB, a.id, V) = {} /\ ~cleanup.ok)
                     => /\ deleted.out.result = "ok"
                        /\ ~Exists(deleted.db.applications, a.id)
                        /\ deleted.db.resume_versions = resume_versions

\* An application whose customized version the cleanup refuses: the
\* application is deleted and the version kept, next to an original version
\* the cleanup refuses for every user.
CleanupRefusedApplicationDeleted ==
    \E a \in applications :
        LET V == a.customized_resume_version_id
            cleanup == delete_application_resume_version(CurrentDB, a.user_id, V)
            deleted == delete_application(CurrentDB, a.user_id, a.id, FALSE)
        IN /\ V # NULL
           /\ OtherApplications(CurrentDB, a.id, V) = {}
           /\ ~cleanup.ok
           /\ ~Exists(deleted.db.applications, a.id)
           /\ Exists(deleted.db.resume_versions, V)
           /\ \E v \in resume_versions, u \in Users :
                  /\ v.is_original /\ VersionOwner(CurrentDB, v) = u
                  /\ ~delete_application_resume_version(CurrentDB, u, v.id).ok

====
